---- MODULE Spec2Model ----
(***************************************************************************)
(* Token lifecycle of the Antigravity provider: the credential record, the *)
(* token endpoint as seen by refresh_access_token, and the three lifecycle *)
(* operations of token_refresh.rs (refresh_credential_token,               *)
(* ensure_valid_token, refresh_token_with_retry), specification Spec; the  *)
(* provisioning flow of api/code_assist.rs (setup_user), specification     *)
(* ProvSpec; the JSON-RPC dispatch loop of main.rs (run_jsonrpc_server),   *)
(* specification DispatchSpec; the functions of auth/oauth.rs that only    *)
(* compute, applied to drawn inputs, specification PureSpec.  Each         *)
(* specification runs its own part and holds the variables of the other    *)
(* parts fixed.                                                            *)
(*                                                                         *)
(* One caller drives one credential record (&mut borrow).  An operation    *)
(* is split only at its real suspension points: the await of the HTTP      *)
(* response and the await of the backoff sleep.  Option<T> is modelled as  *)
(* a sequence: None is << >>, Some(x) is <<x>>.  Timestamps are            *)
(* milliseconds counted from the start of the run.                         *)
(***************************************************************************)
EXTENDS Integers, Sequences, FiniteSets, TLC

VARIABLES
    cred,         \* the AntigravityCredentials record being operated on
    now,          \* Utc::now().timestamp_millis()
    pc,           \* "idle" | "http" (awaiting the token endpoint) | "sleep"
    op,           \* operation in progress: "none" | "refresh" | "ensure" | "retry"
    attempt,      \* refresh_token_with_retry: loop index
    max_retries,  \* refresh_token_with_retry: argument
    last_error,   \* refresh_token_with_retry: local Option<Error>
    ret,          \* what the last finished operation returned
    pre,          \* history: the record when the operation was called
    pre_now,      \* history: the clock when the operation was called
    pre_max,      \* history: the max_retries the operation was called with
    answer,       \* history: Option of the endpoint's latest answer to the operation
    calls,        \* history: token endpoint calls made by the operation
    attempts,     \* history: refresh_credential_token invocations of the operation
    sleeps,       \* history: the delays slept by the operation, in order
    failures,     \* history: failed refresh_credential_token invocations of the operation
    attempt_err,  \* history: Option of the error of the latest failed invocation
    grant,        \* history: Option of the last TokenResponse built by the operation
    grant_now,    \* history: the clock when that response was folded into the record
    opCount,      \* history: operations called so far
    issued,       \* history: Option of the access token and expiry of the latest
                  \* grant folded into the record, kept across operations
    prov,         \* the provisioning flow (api/code_assist.rs setup_user)
    disp,         \* the JSON-RPC dispatch loop (main.rs run_jsonrpc_server)
    pure          \* the latest application of a function of auth/oauth.rs that
                  \* only computes: its inputs and its result

vars == <<cred, now, pc, op, attempt, max_retries, last_error, ret, pre, pre_now,
          pre_max, answer, calls, attempts, sleeps, failures, attempt_err, grant, grant_now,
          opCount, issued, prov, disp, pure>>

----------------------------------------------------------------------------
(* Bounds of the model *)

MaxOps == 2          \* operations called in one behaviour
MaxRetries == 3      \* largest max_retries passed to refresh_token_with_retry
MaxTicks == 1        \* clock ticks outside sleeps

(* Program constants *)

ValidityMarginMs == 300000      \* is_token_valid: 5 minutes
DefaultLifetimeMs == 3600000    \* refresh_access_token: 1 hour
BackoffBaseMs == 1000           \* refresh_token_with_retry: 1000 * 2^attempt
MsPerSecond == 1000             \* expires_in * 1000

(* One clock tick of the model advances the clock by the validity margin *)
TickMs == ValidityMarginMs

----------------------------------------------------------------------------
(* Option<T> *)

None == << >>
Some(x) == <<x>>
IsSome(o) == o # None
Unwrap(o) == o[1]

(* Errors, as the anyhow messages distinguish them *)

MissingRefreshToken == [kind |-> "MissingRefreshToken", status |-> 0]
MissingAccessToken == [kind |-> "MissingAccessToken", status |-> 0]
UpstreamRejected(s) == [kind |-> "UpstreamRejected", status |-> s]
MalformedResponse == [kind |-> "MalformedResponse", status |-> 0]
NetworkError == [kind |-> "NetworkError", status |-> 0]

(* What the token endpoint can answer to one POST *)

HttpStatuses == {400}
IssuedAccessTokens == {"at1", "at2"}
IssuedRefreshTokens == {None, Some("rt1")}
IssuedExpiresIn == {None, Some(60)}
IssuedExpiryDate == {None, Some(7200000)}

EndpointAnswers ==
    [kind : {"ok"}, status : {200}, access_token : IssuedAccessTokens,
     refresh_token : IssuedRefreshTokens, expires_in : IssuedExpiresIn,
     expiry_date : IssuedExpiryDate]
    \cup [kind : {"rejected"}, status : HttpStatuses, access_token : {""},
          refresh_token : {None}, expires_in : {None}, expiry_date : {None}]
    \cup [kind : {"malformed", "network"}, status : {0}, access_token : {""},
          refresh_token : {None}, expires_in : {None}, expiry_date : {None}]

(* chrono::DateTime::from_timestamp_millis(ms).map(|dt| dt.to_rfc3339()):   *)
(* the text carries whole seconds and the millisecond fraction.  Every     *)
(* timestamp of the model is inside chrono's range, so the result is Some. *)
Rfc3339(ms) == Some(<<"rfc3339", ms \div MsPerSecond, ms % MsPerSecond>>)

----------------------------------------------------------------------------
(* auth/oauth.rs *)

(* Mutant of is_token_valid: the comparison turned around *)
is_token_valid_flipped(expiry_date, t) ==
    IF IsSome(expiry_date)
    THEN Unwrap(expiry_date) < t + ValidityMarginMs
    ELSE FALSE

(* Mutant of is_token_valid: an expiry exactly at the margin counts as valid *)
is_token_valid_at_margin(expiry_date, t) ==
    IF IsSome(expiry_date)
    THEN Unwrap(expiry_date) >= t + ValidityMarginMs
    ELSE FALSE

(* is_token_valid(expiry_date), with the clock reading t *)
is_token_valid(expiry_date, t) ==
    IF IsSome(expiry_date)
    THEN Unwrap(expiry_date) > t + ValidityMarginMs
    ELSE FALSE

Ok(v) == [kind |-> "ok", val |-> v]
Err(e) == [kind |-> "err", val |-> e]

(* Mutant of retain_refresh_token: the previous refresh token is not kept *)
retain_refresh_token_dropped(answered, refresh_token) == answered

(* refresh_access_token: the refresh token kept or replaced *)
retain_refresh_token(answered, refresh_token) ==
    IF answered = None THEN Some(refresh_token) ELSE answered

(* Mutant of refresh_expiry_date: no default lifetime, as in the exchange *)
refresh_expiry_date_no_default(answered, expires_in, t) ==
    IF answered = None
    THEN IF IsSome(expires_in)
         THEN Some(t + Unwrap(expires_in) * MsPerSecond)
         ELSE None
    ELSE answered

(* refresh_access_token: the absolute expiry of the response *)
refresh_expiry_date(answered, expires_in, t) ==
    IF answered = None
    THEN IF IsSome(expires_in)
         THEN Some(t + Unwrap(expires_in) * MsPerSecond)
         ELSE Some(t + DefaultLifetimeMs)
    ELSE answered

(* refresh_access_token(refresh_token), given the endpoint's answer a and *)
(* the clock reading t after the answer arrived                          *)
refresh_access_token(refresh_token, a, t) ==
    CASE a.kind = "network" -> Err(NetworkError)
      [] a.kind = "rejected" -> Err(UpstreamRejected(a.status))
      [] a.kind = "malformed" -> Err(MalformedResponse)
      [] a.kind = "ok" ->
            Ok([access_token |-> a.access_token,
                refresh_token |-> retain_refresh_token(a.refresh_token, refresh_token),
                expires_in |-> a.expires_in,
                expiry_date |-> refresh_expiry_date(a.expiry_date, a.expires_in, t)])

----------------------------------------------------------------------------
(* token_refresh.rs *)

TokenRefreshResult(result) ==
    [access_token |-> result.access_token,
     refresh_token |-> result.refresh_token,
     expiry_date |-> result.expiry_date]

(* Mutant of refresh_credential_update: the health flag is left as it was *)
refresh_credential_update_keeps_health(c, result, t) ==
    [c EXCEPT
        !.access_token = Some(result.access_token),
        !.refresh_token = IF IsSome(result.refresh_token)
                          THEN Some(Unwrap(result.refresh_token)) ELSE @,
        !.expiry_date = result.expiry_date,
        !.expire = IF IsSome(result.expiry_date)
                   THEN Rfc3339(Unwrap(result.expiry_date)) ELSE @,
        !.last_refresh = Rfc3339(t),
        !.last_error = None]

(* Mutant of refresh_credential_update: an expiry already stored is kept *)
refresh_credential_update_keeps_expiry(c, result, t) ==
    [c EXCEPT
        !.access_token = Some(result.access_token),
        !.refresh_token = IF IsSome(result.refresh_token)
                          THEN Some(Unwrap(result.refresh_token)) ELSE @,
        !.expiry_date = IF IsSome(@) THEN @ ELSE result.expiry_date,
        !.expire = IF IsSome(result.expiry_date)
                   THEN Rfc3339(Unwrap(result.expiry_date)) ELSE @,
        !.last_refresh = Rfc3339(t),
        !.is_healthy = TRUE,
        !.last_error = None]

(* refresh_credential_token: the record after a successful refresh, t being *)
(* Utc::now() at the update                                                 *)
refresh_credential_update(c, result, t) ==
    [c EXCEPT
        !.access_token = Some(result.access_token),
        !.refresh_token = IF IsSome(result.refresh_token)
                          THEN Some(Unwrap(result.refresh_token)) ELSE @,
        !.expiry_date = result.expiry_date,
        !.expire = IF IsSome(result.expiry_date)
                   THEN Rfc3339(Unwrap(result.expiry_date)) ELSE @,
        !.last_refresh = Rfc3339(t),
        !.is_healthy = TRUE,
        !.last_error = None]

(* Mutant of refresh_credential_failed: the expired access token is dropped *)
refresh_credential_failed_discards(c, e) == [c EXCEPT !.access_token = None]

(* refresh_credential_token: the record after refresh_access_token failed; *)
(* the error leaves through `?` before any field is written               *)
refresh_credential_failed(c, e) == c

(* Mutant of refresh_token_missing: the check is skipped *)
refresh_token_missing_unchecked(c) == FALSE

(* refresh_credential_token: whether the call stops at the missing refresh *)
(* token, before the request is built                                      *)
refresh_token_missing(c) == c.refresh_token = None

(* Mutant of ensure_valid_token_branch: an invalid token is always refreshed, *)
(* whether or not a refresh token is stored                                 *)
ensure_valid_token_branch_always_refresh(c, t) ==
    IF c.access_token = None THEN "missing_access_token"
    ELSE IF is_token_valid(c.expiry_date, t) THEN "valid"
    ELSE "refresh"

(* ensure_valid_token: the branch taken for record c at clock reading t *)
ensure_valid_token_branch(c, t) ==
    IF c.access_token = None THEN "missing_access_token"
    ELSE IF is_token_valid(c.expiry_date, t) THEN "valid"
    ELSE IF IsSome(c.refresh_token) THEN "refresh"
    ELSE "stale"

RECURSIVE Pow2(_)
Pow2(k) == IF k = 0 THEN 1 ELSE 2 * Pow2(k - 1)

(* refresh_token_with_retry: the delay slept after the failed attempt *)
backoff_delay(k) == BackoffBaseMs * Pow2(k)

(* Mutant of record_last_error: the first error is kept *)
record_first_error(previous, e) == IF IsSome(previous) THEN previous ELSE Some(e)

(* refresh_token_with_retry: last_error after a failed attempt *)
record_last_error(previous, e) == Some(e)

(* refresh_token_with_retry: what the function ends with once the loop is *)
(* over; last_error.unwrap() panics on None                              *)
retry_exhausted(le) ==
    IF IsSome(le) THEN Err(Unwrap(le)) ELSE [kind |-> "panic", val |-> None]

----------------------------------------------------------------------------
(* The state machine *)

NoRet == [op |-> "none", kind |-> "none", val |-> None]
Returned(o, r) == [op |-> o, kind |-> r.kind, val |-> r.val]

(* The provisioning flow and the dispatch loop when they are not running *)
ProvParked == [pc |-> "parked"]
DispParked == [pc |-> "parked"]

(* No function applied *)
PureParked == [fn |-> "none"]

InitialCredentials ==
    [access_token : {None, Some("at0")},
     refresh_token : {None, Some("rt0")},
     expiry_date : {None, Some(ValidityMarginMs), Some(ValidityMarginMs + 1)},
     expire : {None},
     last_refresh : {None},
     is_healthy : {TRUE},
     last_error : {None}]
    \cup
    [access_token : {None, Some("at0")},
     refresh_token : {None, Some("rt0")},
     expiry_date : {None, Some(ValidityMarginMs), Some(ValidityMarginMs + 1)},
     expire : {None},
     last_refresh : {None},
     is_healthy : {FALSE},
     last_error : {Some(UpstreamRejected(401))}]

Init ==
    /\ cred \in InitialCredentials
    /\ now = 0
    /\ pc = "idle"
    /\ op = "none"
    /\ attempt = 0
    /\ max_retries = 0
    /\ last_error = None
    /\ ret = NoRet
    /\ pre = cred
    /\ pre_now = 0
    /\ pre_max = 0
    /\ answer = None
    /\ calls = 0
    /\ attempts = 0
    /\ sleeps = << >>
    /\ failures = 0
    /\ attempt_err = None
    /\ grant = None
    /\ grant_now = 0
    /\ opCount = 0
    /\ issued = None
    /\ prov = ProvParked
    /\ disp = DispParked
    /\ pure = PureParked

(* The caller enters an operation: the history of the operation starts *)
Begin ==
    /\ UNCHANGED <<issued, prov, disp, pure>>
    /\ pc = "idle"
    /\ opCount < MaxOps
    /\ opCount' = opCount + 1
    /\ pre' = cred
    /\ pre_now' = now
    /\ answer' = None
    /\ sleeps' = << >>
    /\ grant' = None
    /\ grant_now' = 0
    /\ UNCHANGED now

(* The operation returns r *)
Finish(o, r) ==
    /\ pc' = "idle"
    /\ op' = "none"
    /\ ret' = Returned(o, r)
    /\ attempt' = 0
    /\ max_retries' = 0
    /\ last_error' = None

(* The clock advances while nothing else happens *)
Tick ==
    /\ pc = "idle"
    /\ now < MaxTicks * TickMs
    /\ now' = now + TickMs
    /\ UNCHANGED <<cred, pc, op, attempt, max_retries, last_error, ret, pre, pre_now,
                   pre_max, answer, calls, attempts, sleeps, failures, attempt_err, grant, grant_now,
                   opCount, issued, prov, disp, pure>>

(* refresh_credential_token(credential), up to its await *)
refresh_credential_token ==
    /\ Begin
    /\ attempts' = 1
    /\ pre_max' = 0
    /\ UNCHANGED cred
    /\ IF refresh_token_missing(cred)
       THEN /\ Finish("refresh", Err(MissingRefreshToken))
            /\ calls' = 0
            /\ failures' = 1
            /\ attempt_err' = Some(MissingRefreshToken)
       ELSE /\ pc' = "http"
            /\ op' = "refresh"
            /\ calls' = 1
            /\ failures' = 0
            /\ attempt_err' = None
            /\ ret' = NoRet
            /\ UNCHANGED <<attempt, max_retries, last_error>>

(* ensure_valid_token(credential), up to its await *)
ensure_valid_token ==
    /\ Begin
    /\ pre_max' = 0
    /\ UNCHANGED cred
    /\ LET b == ensure_valid_token_branch(cred, now) IN
       CASE b = "missing_access_token" ->
              /\ Finish("ensure", Err(MissingAccessToken))
              /\ calls' = 0 /\ attempts' = 0 /\ failures' = 0 /\ attempt_err' = None
         [] b = "valid" ->
              /\ Finish("ensure", Ok(Unwrap(cred.access_token)))
              /\ calls' = 0 /\ attempts' = 0 /\ failures' = 0 /\ attempt_err' = None
         [] b = "refresh" ->
              IF refresh_token_missing(cred)
              THEN /\ Finish("ensure", Err(MissingRefreshToken))
                   /\ calls' = 0 /\ attempts' = 1 /\ failures' = 1
                   /\ attempt_err' = Some(MissingRefreshToken)
              ELSE /\ pc' = "http"
                   /\ op' = "ensure"
                   /\ calls' = 1 /\ attempts' = 1 /\ failures' = 0 /\ attempt_err' = None
                   /\ ret' = NoRet
                   /\ UNCHANGED <<attempt, max_retries, last_error>>
         [] b = "stale" ->
              /\ Finish("ensure", Ok(Unwrap(cred.access_token)))
              /\ calls' = 0 /\ attempts' = 0 /\ failures' = 0 /\ attempt_err' = None

(* refresh_token_with_retry: the head of `for attempt in 0..max_retries`    *)
(* with loop index i, n = max_retries, le = last_error, and the histories   *)
(* so far; runs refresh_credential_token up to its await, or leaves the loop *)
RetryLoop(i, n, le, at, cl, fl, ae) ==
    IF i < n
    THEN /\ attempt' = i
         /\ max_retries' = n
         /\ attempts' = at + 1
         /\ op' = "retry"
         /\ ret' = NoRet
         /\ IF refresh_token_missing(cred)
            THEN /\ pc' = "sleep"
                 /\ last_error' = record_last_error(le, MissingRefreshToken)
                 /\ failures' = fl + 1
                 /\ attempt_err' = Some(MissingRefreshToken)
                 /\ calls' = cl
            ELSE /\ pc' = "http"
                 /\ last_error' = le
                 /\ failures' = fl
                 /\ attempt_err' = ae
                 /\ calls' = cl + 1
    ELSE /\ Finish("retry", retry_exhausted(le))
         /\ attempts' = at
         /\ failures' = fl
         /\ attempt_err' = ae
         /\ calls' = cl

(* refresh_token_with_retry(credential, n), up to its first await *)
refresh_token_with_retry ==
    \E n \in 0..MaxRetries :
        /\ Begin
        /\ pre_max' = n
        /\ UNCHANGED cred
        /\ RetryLoop(0, n, None, 0, 0, 0, None)

(* The token endpoint answers (or the request fails) and the awaiting      *)
(* refresh_credential_token runs to its end, and its caller to its next    *)
(* await or its end                                                        *)
TokenEndpointAnswers ==
    \E a \in EndpointAnswers :
        /\ pc = "http"
        /\ answer' = Some(a)
        /\ LET r == refresh_access_token(Unwrap(cred.refresh_token), a, now) IN
           IF r.kind = "ok"
           THEN /\ cred' = refresh_credential_update(cred, r.val, now)
                /\ grant' = Some(r.val)
                /\ grant_now' = now
                /\ issued' = Some([access_token |-> r.val.access_token,
                                   expiry_date |-> r.val.expiry_date])
                /\ UNCHANGED <<failures, attempt_err>>
                /\ Finish(op, Ok(IF op = "ensure" THEN r.val.access_token
                                  ELSE TokenRefreshResult(r.val)))
           ELSE /\ cred' = refresh_credential_failed(cred, r.val)
                /\ failures' = failures + 1
                /\ attempt_err' = Some(r.val)
                /\ UNCHANGED <<grant, grant_now, issued>>
                /\ IF op = "retry"
                   THEN /\ pc' = "sleep"
                        /\ last_error' = record_last_error(last_error, r.val)
                        /\ UNCHANGED <<op, ret, attempt, max_retries>>
                   ELSE Finish(op, r)
        /\ UNCHANGED <<now, pre, pre_now, pre_max, calls, attempts, sleeps, opCount, prov,
                       disp, pure>>

(* tokio::time::sleep(delay) of refresh_token_with_retry is over: the loop *)
(* goes to its next index                                                  *)
BackoffSleepEnds ==
    /\ pc = "sleep"
    /\ now' = now + backoff_delay(attempt)
    /\ sleeps' = Append(sleeps, backoff_delay(attempt))
    /\ RetryLoop(attempt + 1, max_retries, last_error, attempts, calls, failures,
                 attempt_err)
    /\ UNCHANGED <<cred, pre, pre_now, pre_max, answer, grant, grant_now, opCount, issued,
                   prov, disp, pure>>

Next ==
    \/ Tick
    \/ refresh_credential_token
    \/ ensure_valid_token
    \/ refresh_token_with_retry
    \/ TokenEndpointAnswers
    \/ BackoffSleepEnds

Spec == Init /\ [][Next]_vars

----------------------------------------------------------------------------
(* api/code_assist.rs: the provisioning flow *)

MAX_ATTEMPTS == 12   \* onboard_user: polls before the timeout

ProvisioningTimeout == [kind |-> "ProvisioningTimeout", status |-> 0]

(* value["id"].as_str() of a tier: None when there is no string "id" *)
TierIds == {None, Some("PRO"), Some("FREE"), Some("STANDARD")}
AllowedTierIds == {None, Some("PRO"), Some("FREE")}

(* value["isDefault"].as_bool(): None when there is no boolean "isDefault" *)
AllowedTiers == [isDefault : {None, Some(TRUE), Some(FALSE)}, id : AllowedTierIds]

(* The allowedTiers arrays of up to two tiers *)
TierArrays ==
    {<< >>} \cup {<<t>> : t \in AllowedTiers} \cup {<<t, u>> : t, u \in AllowedTiers}

(* LoadCodeAssistResponse.allowed_tiers: absent, a value that is no array, *)
(* or an array of tiers                                                   *)
AllowedTiersValues ==
    {None, Some([is_array |-> FALSE, items |-> << >>])}
    \cup {Some([is_array |-> TRUE, items |-> ts]) : ts \in TierArrays}

ProvStatuses == {403, 500}

(* What the loadCodeAssist endpoint can answer *)
LoadAnswers ==
    [kind : {"ok"}, status : {200},
     cloud_ai_companion_project : {None, Some("p_load")},
     current_tier : {None} \cup {Some([id |-> i]) : i \in TierIds},
     allowed_tiers : AllowedTiersValues]
    \cup [kind : {"rejected"}, status : ProvStatuses,
          cloud_ai_companion_project : {None}, current_tier : {None},
          allowed_tiers : {None}]
    \cup [kind : {"malformed", "network"}, status : {0},
          cloud_ai_companion_project : {None}, current_tier : {None},
          allowed_tiers : {None}]

(* OnboardResponse.response: absent, or a value whose                      *)
(* ["cloudaicompanionProject"]["id"].as_str() is project_id                *)
OnboardResults == {None, Some([project_id |-> None]), Some([project_id |-> Some("p_onb")])}

(* What the onboardUser endpoint can answer to one poll; the payload of an *)
(* answer that is not done is never read                                   *)
OnboardAnswers ==
    [kind : {"ok"}, status : {200}, done : {TRUE}, response : OnboardResults]
    \cup [kind : {"ok"}, status : {200}, done : {FALSE}, response : {None}]
    \cup [kind : {"rejected"}, status : ProvStatuses, done : {FALSE}, response : {None}]
    \cup [kind : {"malformed", "network"}, status : {0}, done : {FALSE},
          response : {None}]

(* UserTier::as_str of the tier an id selects *)
tier_of_id(id) ==
    IF id = Some("PRO") THEN "PRO"
    ELSE IF id = Some("FREE") THEN "FREE"
    ELSE "LEGACY"

(* tier["isDefault"].as_bool().unwrap_or(false) *)
is_default_tier(t) == IF IsSome(t.isDefault) THEN Unwrap(t.isDefault) ELSE FALSE

(* get_onboard_tier: the loop over the allowed tiers *)
RECURSIVE default_tier(_)
default_tier(items) ==
    IF items = << >> THEN "LEGACY"
    ELSE IF is_default_tier(Head(items)) THEN tier_of_id(Head(items).id)
    ELSE default_tier(Tail(items))

(* Mutant of get_onboard_tier: a current tier without a PRO or FREE id is *)
(* passed over and the allowed tiers decide                               *)
get_onboard_tier_falls_through(load_res) ==
    IF IsSome(load_res.current_tier)
          /\ tier_of_id(Unwrap(load_res.current_tier).id) # "LEGACY"
    THEN tier_of_id(Unwrap(load_res.current_tier).id)
    ELSE IF IsSome(load_res.allowed_tiers) /\ Unwrap(load_res.allowed_tiers).is_array
    THEN default_tier(Unwrap(load_res.allowed_tiers).items)
    ELSE "LEGACY"

(* get_onboard_tier(load_res) *)
get_onboard_tier(load_res) ==
    IF IsSome(load_res.current_tier)
    THEN tier_of_id(Unwrap(load_res.current_tier).id)
    ELSE IF IsSome(load_res.allowed_tiers) /\ Unwrap(load_res.allowed_tiers).is_array
    THEN default_tier(Unwrap(load_res.allowed_tiers).items)
    ELSE "LEGACY"

(* Option::or *)
OptionOr(a, b) == IF IsSome(a) THEN a ELSE b

(* Mutant of known_project_id: the project of the load step comes first *)
known_project_id_load_first(initial_project_id, load_res) ==
    OptionOr(load_res.cloud_ai_companion_project, initial_project_id)

(* setup_user: the project id known before onboarding *)
known_project_id(initial_project_id, load_res) ==
    OptionOr(initial_project_id, load_res.cloud_ai_companion_project)

(* setup_user: final_project_id *)
final_project_id(lro_res, project_id) ==
    LET from_response == IF IsSome(lro_res.response)
                         THEN Unwrap(lro_res.response).project_id
                         ELSE None
        chosen == OptionOr(from_response, project_id)
    IN  IF IsSome(chosen) THEN Unwrap(chosen) ELSE ""

(* Mutant of onboard_timed_out: the cap is compared with > *)
onboard_timed_out_late(attempts_made) == attempts_made > MAX_ATTEMPTS

(* onboard_user: attempts >= MAX_ATTEMPTS *)
onboard_timed_out(attempts_made) == attempts_made >= MAX_ATTEMPTS

(* Mutant of onboard_poll_failed: a rejected poll is polled again *)
onboard_poll_failed_ignored(a) ==
    CASE a.kind = "network" -> Some(NetworkError)
      [] a.kind = "malformed" -> Some(MalformedResponse)
      [] OTHER -> None

(* onboard_user: the error one poll ends the loop with, if any *)
onboard_poll_failed(a) ==
    CASE a.kind = "network" -> Some(NetworkError)
      [] a.kind = "rejected" -> Some(UpstreamRejected(a.status))
      [] a.kind = "malformed" -> Some(MalformedResponse)
      [] OTHER -> None

(* The lifecycle state when no lifecycle operation is running *)
lifecycleVars == <<cred, now, pc, op, attempt, max_retries, last_error, ret, pre, pre_now,
                   pre_max, answer, calls, attempts, sleeps, failures, attempt_err, grant,
                   grant_now, opCount, issued>>

LifecycleParked ==
    /\ cred = [access_token |-> None, refresh_token |-> None, expiry_date |-> None,
               expire |-> None, last_refresh |-> None, is_healthy |-> TRUE,
               last_error |-> None]
    /\ now = 0
    /\ pc = "parked"
    /\ op = "none"
    /\ attempt = 0
    /\ max_retries = 0
    /\ last_error = None
    /\ ret = NoRet
    /\ pre = cred
    /\ pre_now = 0
    /\ pre_max = 0
    /\ answer = None
    /\ calls = 0
    /\ attempts = 0
    /\ sleeps = << >>
    /\ failures = 0
    /\ attempt_err = None
    /\ grant = None
    /\ grant_now = 0
    /\ opCount = 0
    /\ issued = None

(* setup_user has not been called *)
ProvIdle ==
    [pc |-> "idle",                \* "idle" | "tokeninfo" | "userinfo" | "load" |
                                   \* "onboard" | "sleep" | "done"
     initial_project_id |-> None,  \* argument
     load_res |-> None,            \* Option of the loadCodeAssist response
     project_id |-> None,          \* the project id known before onboarding
     tier |-> "LEGACY",            \* get_onboard_tier(load_res)
     attempts |-> 0,               \* onboard_user: attempts
     polls |-> 0,                  \* history: onboardUser calls made
     notdone |-> 0,                \* history: polls answered done:false
     slept |-> 0,                  \* history: 5 s sleeps started
     probes |-> 0,                 \* history: advisory tokeninfo/userinfo calls answered
     last |-> None,                \* history: Option of the latest onboardUser answer
     result |-> [kind |-> "none", val |-> None]]

ProvInit ==
    /\ LifecycleParked
    /\ disp = DispParked
    /\ pure = PureParked
    /\ prov = ProvIdle

(* setup_user(access_token, initial_project_id), up to its first await:    *)
(* load_code_assist sends the advisory probes only without a project id   *)
setup_user ==
    /\ prov.pc = "idle"
    /\ UNCHANGED <<lifecycleVars, disp, pure>>
    /\ \E p \in {None, Some("p_in")} :
        prov' = [prov EXCEPT !.initial_project_id = p,
                                !.pc = IF p = None THEN "tokeninfo" ELSE "load"]

(* load_code_assist: the tokeninfo probe ends; its outcome is dropped *)
TokeninfoProbeEnds ==
    /\ prov.pc = "tokeninfo"
    /\ UNCHANGED <<lifecycleVars, disp, pure>>
    /\ \E outcome \in {"ok", "failed"} :
        prov' = [prov EXCEPT !.pc = "userinfo", !.probes = @ + 1]

(* load_code_assist: the userinfo probe ends; its outcome is dropped *)
UserinfoProbeEnds ==
    /\ prov.pc = "userinfo"
    /\ UNCHANGED <<lifecycleVars, disp, pure>>
    /\ \E outcome \in {"ok", "failed"} :
        prov' = [prov EXCEPT !.pc = "load", !.probes = @ + 1]

(* loadCodeAssist answers: load_code_assist returns, setup_user picks the  *)
(* project id and the tier and onboard_user sends its first poll          *)
LoadCodeAssistAnswers ==
    /\ prov.pc = "load"
    /\ UNCHANGED <<lifecycleVars, disp, pure>>
    /\ \E a \in LoadAnswers :
        prov' =
            CASE a.kind = "network" ->
                    [prov EXCEPT !.pc = "done", !.result = Err(NetworkError)]
              [] a.kind = "rejected" ->
                    [prov EXCEPT !.pc = "done",
                                 !.result = Err(UpstreamRejected(a.status))]
              [] a.kind = "malformed" ->
                    [prov EXCEPT !.pc = "done", !.result = Err(MalformedResponse)]
              [] a.kind = "ok" ->
                    [prov EXCEPT !.pc = "onboard",
                                 !.load_res = Some(a),
                                 !.project_id = known_project_id(prov.initial_project_id, a),
                                 !.tier = get_onboard_tier(a),
                                 !.attempts = 0,
                                 !.polls = 1]

(* onboardUser answers one poll: onboard_user leaves its loop or goes to   *)
(* sleep, and setup_user ends when onboard_user returns                    *)
OnboardUserAnswers ==
    /\ prov.pc = "onboard"
    /\ UNCHANGED <<lifecycleVars, disp, pure>>
    /\ \E a \in OnboardAnswers :
        LET failed == onboard_poll_failed(a) IN
        prov' =
            IF IsSome(failed)
            THEN [prov EXCEPT !.pc = "done", !.last = Some(a),
                              !.result = Err(Unwrap(failed))]
            ELSE IF a.done
            THEN [prov EXCEPT !.pc = "done", !.last = Some(a),
                              !.result = Ok([project_id |->
                                                final_project_id(a, prov.project_id),
                                             user_tier |-> prov.tier])]
            ELSE IF onboard_timed_out(prov.attempts + 1)
            THEN [prov EXCEPT !.pc = "done", !.last = Some(a),
                              !.attempts = @ + 1, !.notdone = @ + 1,
                              !.result = Err(ProvisioningTimeout)]
            ELSE [prov EXCEPT !.pc = "sleep", !.last = Some(a),
                              !.attempts = @ + 1, !.notdone = @ + 1,
                              !.slept = @ + 1]

(* The 5 s sleep of onboard_user is over: the next poll is sent *)
OnboardSleepEnds ==
    /\ prov.pc = "sleep"
    /\ UNCHANGED <<lifecycleVars, disp, pure>>
    /\ prov' = [prov EXCEPT !.pc = "onboard", !.polls = @ + 1]

ProvNext ==
    \/ setup_user
    \/ TokeninfoProbeEnds
    \/ UserinfoProbeEnds
    \/ LoadCodeAssistAnswers
    \/ OnboardUserAnswers
    \/ OnboardSleepEnds

ProvSpec == ProvInit /\ [][ProvNext]_vars

----------------------------------------------------------------------------
(* main.rs: the JSON-RPC dispatch loop, with auth/oauth.rs behind it *)

MaxLines == 2        \* input lines read in one run of the loop

ParseErrorCode == -32700
MethodNotFoundCode == -32601
InvalidParamsCode == -32602
OperationFailedCode == -32000

RecognizedMethods ==
    {"initialize", "acquire_credential", "release_credential", "list_credentials",
     "add_credential", "remove_credential", "refresh_token", "validate_credential",
     "get_auth_url", "exchange_code", "health_check", "shutdown"}

(* The methods whose handler never looks at params *)
ParamlessMethods ==
    {"initialize", "release_credential", "list_credentials", "remove_credential",
     "health_check", "shutdown"}

Methods == RecognizedMethods \cup {"frobnicate"}

RequestIds == {1, 2}

(* A field of params: not there, there but not of the type the handler     *)
(* reads (a string), or there as a string                                  *)
FieldValues == {"absent", "wrong", "ok"}

(* The access tokens a stored record holds *)
AccessTokens == {"at0", "at9"}

(* The expiry_date a stored record holds, against the clock of the         *)
(* dispatcher's run (0): none, one in the past, one within the validity    *)
(* margin, one beyond it                                                   *)
StoredExpiryDates ==
    {None, Some(0 - MsPerSecond), Some(ValidityMarginMs), Some(DefaultLifetimeMs)}

NoFields ==
    [id |-> "absent", access_token |-> "absent", refresh_token |-> "absent",
     code |-> "absent", code_verifier |-> "absent", redirect_uri |-> "absent",
     state |-> "absent", expiry_date |-> None]

(* The records acquire_credential is sent: every mix of id and             *)
(* access_token there, not there or mistyped, and the well-formed records  *)
(* with each token, with and without a refresh token, with each expiry     *)
StoredRecords ==
    {[NoFields EXCEPT !.id = i, !.access_token = a] :
        i \in FieldValues, a \in FieldValues}
    \cup {[NoFields EXCEPT !.id = "ok", !.access_token = a, !.refresh_token = r,
                           !.expiry_date = e] :
            a \in AccessTokens, r \in {"absent", "ok"}, e \in StoredExpiryDates}

(* The params objects a request of method m is sent with: the fields the   *)
(* handler of m reads take every value                                     *)
FieldsOf(m) ==
    CASE m = "acquire_credential" -> StoredRecords
      [] m = "add_credential" ->
            {[NoFields EXCEPT !.id = i, !.access_token = a] :
                i \in FieldValues, a \in FieldValues}
      [] m = "refresh_token" ->
            {[NoFields EXCEPT !.refresh_token = v] : v \in FieldValues}
      [] m = "validate_credential" ->
            {[NoFields EXCEPT !.access_token = v] : v \in FieldValues}
      [] m = "get_auth_url" ->
            {[NoFields EXCEPT !.state = v] : v \in FieldValues}
      [] m = "exchange_code" ->
            {[NoFields EXCEPT !.code = c, !.code_verifier = v, !.redirect_uri = u] :
                c \in FieldValues, v \in FieldValues, u \in FieldValues}
      [] OTHER -> {NoFields}

(* JsonRpcRequest: params is an Option *)
Requests ==
    UNION {[method : {m}, params : {None} \cup {Some(f) : f \in FieldsOf(m)},
            id : RequestIds] : m \in Methods}

NoRequest == [method |-> "", params |-> None, id |-> 0]

(* What one read of stdin can give: a read error, a blank line, a line     *)
(* that is no JsonRpcRequest, or a request                                 *)
Lines ==
    [kind : {"unreadable", "blank", "malformed"}, request : {NoRequest}]
    \cup [kind : {"request"}, request : Requests]

NoLine == [kind |-> "none", request |-> NoRequest]

(* What the userinfo endpoint can answer *)
UserInfoAnswers ==
    [kind : {"ok"}, status : {200}, email : {None, Some("u@example.com")}]
    \cup [kind : {"rejected"}, status : {401}, email : {None}]
    \cup [kind : {"malformed", "network"}, status : {0}, email : {None}]

(* exchange_code_for_tokens: the absolute expiry of the response *)
exchange_expiry_date(answered, expires_in, t) ==
    IF answered = None
    THEN IF IsSome(expires_in)
         THEN Some(t + Unwrap(expires_in) * MsPerSecond)
         ELSE None
    ELSE answered

(* exchange_code_for_tokens(code, redirect_uri, code_verifier), given the *)
(* endpoint's answer a and the clock reading t after the answer arrived   *)
exchange_code_for_tokens(a, t) ==
    CASE a.kind = "network" -> Err(NetworkError)
      [] a.kind = "rejected" -> Err(UpstreamRejected(a.status))
      [] a.kind = "malformed" -> Err(MalformedResponse)
      [] a.kind = "ok" ->
            Ok([access_token |-> a.access_token,
                refresh_token |-> a.refresh_token,
                expires_in |-> a.expires_in,
                expiry_date |-> exchange_expiry_date(a.expiry_date, a.expires_in, t)])

(* fetch_user_info(access_token), given the endpoint's answer *)
fetch_user_info(a) ==
    CASE a.kind = "network" -> Err(NetworkError)
      [] a.kind = "rejected" -> Err(UpstreamRejected(a.status))
      [] a.kind = "malformed" -> Err(MalformedResponse)
      [] a.kind = "ok" -> Ok([email |-> a.email])

(* JsonRpcResponse::success *)
JsonRpcResponse_success(id, result) ==
    [id |-> id, result |-> Some(result), error |-> None]

(* Mutant of JsonRpcResponse_error: the message names no cause *)
JsonRpcResponse_error_without_cause(id, code, text, cause) ==
    [id |-> id, result |-> None,
     error |-> Some([code |-> code, message |-> [text |-> text, cause |-> None]])]

(* JsonRpcResponse::error; the message is a fixed text and, where the      *)
(* handler formats an error into it, that error                            *)
JsonRpcResponse_error(id, code, text, cause) ==
    [id |-> id, result |-> None,
     error |-> Some([code |-> code, message |-> [text |-> text, cause |-> cause]])]

NoResponse == [id |-> None, result |-> None, error |-> None]

(* A serde_json error: the text is no JSON of the expected type *)
InvalidJson == [kind |-> "InvalidJson", status |-> 0]

(* Mutant of parse_error_response: the code of an invalid request *)
parse_error_response_invalid_request ==
    JsonRpcResponse_error(None, -32600, "Parse error", Some(InvalidJson))

(* run_jsonrpc_server: the response to a line serde_json cannot parse *)
parse_error_response ==
    JsonRpcResponse_error(None, ParseErrorCode, "Parse error", Some(InvalidJson))

(* serde_json::from_value::<AntigravityCredentials>(params): id is a       *)
(* required string, access_token and refresh_token optional ones           *)
credential_from_value(f) ==
    f.id = "ok" /\ f.access_token # "wrong" /\ f.refresh_token # "wrong"

(* params.get(name).and_then(|v| v.as_str()).is_some() *)
has_str(f, name) == f[name] \notin {"absent", "wrong"}

(* The handlers answer at once, or await an upstream call first *)
Respond(response) == [kind |-> "respond", response |-> response, call |-> "none"]
Await(call) == [kind |-> "await", response |-> NoResponse, call |-> call]

(* Mutant of dispatch: a method without a handler goes to the health check *)
dispatch_default_health_check(method) ==
    IF method \in RecognizedMethods THEN method ELSE "health_check"

(* handle_request: the match on the method name *)
dispatch(method) ==
    IF method \in RecognizedMethods THEN method ELSE "method_not_found"

(* The result payloads of the handlers that call nothing *)
LocalResult(handler) ==
    [handler |-> handler, valid |-> TRUE, email |-> None, grant |-> None,
     token |-> None, expires_at |-> None]

(* credential.expiry_date.and_then(DateTime::from_timestamp_millis), as it *)
(* is serialized                                                           *)
acquired_expires_at(expiry_date) ==
    IF IsSome(expiry_date) THEN Rfc3339(Unwrap(expiry_date)) ELSE None

(* Mutant of handle_acquire_credential: a token that is_token_valid turns  *)
(* down is refreshed when the record has a refresh token, refused if not   *)
handle_acquire_credential_gated(id, f) ==
    IF ~credential_from_value(f)
    THEN Respond(JsonRpcResponse_error(id, InvalidParamsCode, "Invalid params",
                                       Some(InvalidJson)))
    ELSE IF ~has_str(f, "access_token")
    THEN Respond(JsonRpcResponse_error(id, InvalidParamsCode,
                                       "Missing access_token", None))
    ELSE IF is_token_valid(f.expiry_date, now)
    THEN Respond(JsonRpcResponse_success(id,
            [LocalResult("acquire_credential") EXCEPT
                !.token = Some(f.access_token),
                !.expires_at = acquired_expires_at(f.expiry_date)]))
    ELSE IF has_str(f, "refresh_token")
    THEN Await("refresh_token")
    ELSE Respond(JsonRpcResponse_error(id, OperationFailedCode, "Token expired", None))

(* handle_acquire_credential, params being there: the record is parsed and *)
(* its access_token handed out with the expiry it is stored with           *)
handle_acquire_credential(id, f) ==
    IF ~credential_from_value(f)
    THEN Respond(JsonRpcResponse_error(id, InvalidParamsCode, "Invalid params",
                                       Some(InvalidJson)))
    ELSE IF ~has_str(f, "access_token")
    THEN Respond(JsonRpcResponse_error(id, InvalidParamsCode,
                                       "Missing access_token", None))
    ELSE Respond(JsonRpcResponse_success(id,
            [LocalResult("acquire_credential") EXCEPT
                !.token = Some(f.access_token),
                !.expires_at = acquired_expires_at(f.expiry_date)]))

(* handle_<method>, up to its first upstream call: the checks on params *)
handle_params(handler, id, params) ==
    IF handler \in ParamlessMethods \cup {"get_auth_url"}
    THEN Respond(JsonRpcResponse_success(id, LocalResult(handler)))
    ELSE IF params = None
    THEN Respond(JsonRpcResponse_error(id, InvalidParamsCode, "Missing params", None))
    ELSE LET f == Unwrap(params) IN
    CASE handler = "acquire_credential" -> handle_acquire_credential(id, f)
      [] handler = "add_credential" ->
            IF ~credential_from_value(f)
            THEN Respond(JsonRpcResponse_error(id, InvalidParamsCode, "Invalid params",
                                               Some(InvalidJson)))
            ELSE Respond(JsonRpcResponse_success(id, LocalResult(handler)))
      [] handler = "refresh_token" ->
            IF ~has_str(f, "refresh_token")
            THEN Respond(JsonRpcResponse_error(id, InvalidParamsCode,
                                               "Missing refresh_token", None))
            ELSE Await("refresh_token")
      [] handler = "validate_credential" ->
            IF ~has_str(f, "access_token")
            THEN Respond(JsonRpcResponse_error(id, InvalidParamsCode,
                                               "Missing access_token", None))
            ELSE Await("validate_credential")
      [] handler = "exchange_code" ->
            IF ~has_str(f, "code")
            THEN Respond(JsonRpcResponse_error(id, InvalidParamsCode, "Missing code", None))
            ELSE IF ~has_str(f, "code_verifier")
            THEN Respond(JsonRpcResponse_error(id, InvalidParamsCode,
                                               "Missing code_verifier", None))
            ELSE Await("exchange_code")

(* handle_request(request), up to its first upstream call *)
handle_request(request) ==
    IF dispatch(request.method) = "method_not_found"
    THEN Respond(JsonRpcResponse_error(Some(request.id), MethodNotFoundCode,
                                       "Method not found", None))
    ELSE handle_params(dispatch(request.method), Some(request.id), request.params)

(* The loop before its first read *)
DispIdle ==
    [pc |-> "read",             \* "read" | "refresh_http" | "exchange_http" |
                                \* "userinfo_http" | "stopped" | "write_failed"
     lines |-> 0,               \* history: reads of stdin that gave a line
     last |-> NoLine,           \* history: the latest line read
     handler |-> "none",        \* the handler awaiting an upstream call
     held |-> None,             \* handle_exchange_code: the grant, while userinfo is asked
     answer |-> None,           \* history: the token endpoint's answer for the latest line
     parsed |-> << >>,          \* history: ids of the requests parsed, in order
     out |-> << >>,             \* history: ids of the responses written, in order
     resp |-> NoResponse,       \* history: the latest response written
     token_calls |-> 0,         \* history: refresh calls made for the latest line
     exchange_calls |-> 0,      \* history: code-exchange calls made for the latest line
     userinfo_calls |-> 0,      \* history: userinfo calls made for the latest line
     inflight |-> 0,            \* history: upstream calls awaiting their answer
     after_shutdown |-> FALSE]  \* history: a line was read after a shutdown request

DispInit ==
    /\ LifecycleParked
    /\ prov = ProvParked
    /\ pure = PureParked
    /\ disp = DispIdle

(* Mutant of may_read: lines are read while a handler awaits its answer *)
may_read_while_awaiting(d) == d.pc \in {"read", "refresh_http", "exchange_http"}

(* run_jsonrpc_server: the for loop asks stdin for the next line only      *)
(* between two iterations                                                  *)
may_read(d) == d.pc = "read"

(* Mutant of after_response: the loop ends once a shutdown is answered *)
after_response_shutdown_stops(d) ==
    IF d.last.kind = "request" /\ d.last.request.method = "shutdown"
    THEN "stopped"
    ELSE "read"

(* run_jsonrpc_server: where the loop goes once a response is flushed; the *)
(* body ends, or continues, into the next iteration whatever was answered  *)
after_response(d) == "read"

(* writeln!(stdout, ..)?; stdout.flush()?: the response is out, or the     *)
(* loop ends with the write's error                                        *)
write_response(d, response, written) ==
    IF written
    THEN [d EXCEPT !.pc = after_response(d), !.handler = "none", !.held = None,
                   !.out = Append(@, response.id), !.resp = response]
    ELSE [d EXCEPT !.pc = "write_failed", !.handler = "none", !.held = None]

(* The upstream call a handler starts *)
start_call(d, call) ==
    CASE call = "refresh_token" ->
            [d EXCEPT !.pc = "refresh_http", !.handler = call,
                      !.token_calls = @ + 1, !.inflight = @ + 1]
      [] call = "exchange_code" ->
            [d EXCEPT !.pc = "exchange_http", !.handler = call,
                      !.exchange_calls = @ + 1, !.inflight = @ + 1]
      [] call = "validate_credential" ->
            [d EXCEPT !.pc = "userinfo_http", !.handler = call,
                      !.userinfo_calls = @ + 1, !.inflight = @ + 1]

(* One iteration of the loop, up to the next read or the first upstream    *)
(* call of the handler                                                     *)
ReadLine ==
    /\ may_read(disp)
    /\ disp.lines < MaxLines
    /\ UNCHANGED <<lifecycleVars, prov, pure>>
    /\ \E line \in Lines, written \in BOOLEAN :
        LET d == [disp EXCEPT !.lines = @ + 1, !.last = line, !.answer = None,
                              !.token_calls = 0, !.exchange_calls = 0,
                              !.userinfo_calls = 0,
                              !.after_shutdown =
                                  \/ @
                                  \/ /\ disp.last.kind = "request"
                                     /\ disp.last.request.method = "shutdown"]
        IN
        disp' =
            CASE line.kind \in {"unreadable", "blank"} -> [d EXCEPT !.pc = "read"]
              [] line.kind = "malformed" -> write_response(d, parse_error_response, written)
              [] line.kind = "request" ->
                    LET h == handle_request(line.request)
                        p == [d EXCEPT !.parsed = Append(@, line.request.id)]
                    IN  IF h.kind = "respond"
                        THEN write_response(p, h.response, written)
                        ELSE start_call(p, h.call)

(* stdin is at its end: run_jsonrpc_server returns Ok *)
EndOfInput ==
    /\ may_read(disp)
    /\ UNCHANGED <<lifecycleVars, prov, pure>>
    /\ disp' = [disp EXCEPT !.pc = "stopped"]

(* Mutant of handle_refresh_token_result: a failed refresh is tried again *)
handle_refresh_token_result_retries(id, r) ==
    IF r.kind = "ok"
    THEN Respond(JsonRpcResponse_success(id,
            [LocalResult("refresh_token") EXCEPT !.grant = Some(TokenRefreshResult(r.val))]))
    ELSE Await("refresh_token")

(* handle_refresh_token: the match on the one refresh_access_token call *)
handle_refresh_token_result(id, r) ==
    IF r.kind = "ok"
    THEN Respond(JsonRpcResponse_success(id,
            [LocalResult("refresh_token") EXCEPT !.grant = Some(TokenRefreshResult(r.val))]))
    ELSE Respond(JsonRpcResponse_error(id, OperationFailedCode,
                                       "Token refresh failed", Some(r.val)))

(* handle_refresh_token: the token endpoint answers *)
RefreshTokenAnswers ==
    /\ disp.pc = "refresh_http"
    /\ UNCHANGED <<lifecycleVars, prov, pure>>
    /\ \E a \in EndpointAnswers, written \in BOOLEAN :
        LET r == refresh_access_token("rt0", a, now)
            h == handle_refresh_token_result(Some(disp.last.request.id), r)
            d == [disp EXCEPT !.inflight = @ - 1, !.answer = Some(a)]
        IN
        disp' = IF h.kind = "respond"
                THEN write_response(d, h.response, written)
                ELSE start_call(d, h.call)

(* handle_exchange_code: the token endpoint answers; a grant is followed   *)
(* by the userinfo call                                                    *)
ExchangeCodeAnswers ==
    /\ disp.pc = "exchange_http"
    /\ UNCHANGED <<lifecycleVars, prov, pure>>
    /\ \E a \in EndpointAnswers, written \in BOOLEAN :
        LET r == exchange_code_for_tokens(a, now)
            id == Some(disp.last.request.id)
            d == [disp EXCEPT !.inflight = @ - 1, !.answer = Some(a)]
        IN
        disp' =
            IF r.kind = "ok"
            THEN [d EXCEPT !.pc = "userinfo_http", !.held = Some(TokenRefreshResult(r.val)),
                           !.userinfo_calls = @ + 1, !.inflight = @ + 1]
            ELSE write_response(d,
                    JsonRpcResponse_error(id, OperationFailedCode,
                                          "Code exchange failed", Some(r.val)),
                    written)

(* handle_validate_credential, handle_exchange_code: the userinfo endpoint *)
(* answers; a failure is not an error of the request                       *)
UserInfoEndpointAnswers ==
    /\ disp.pc = "userinfo_http"
    /\ UNCHANGED <<lifecycleVars, prov, pure>>
    /\ \E a \in UserInfoAnswers, written \in BOOLEAN :
        LET u == fetch_user_info(a)
            id == Some(disp.last.request.id)
            d == [disp EXCEPT !.inflight = @ - 1]
        IN
        disp' = write_response(d,
                    JsonRpcResponse_success(id,
                        [LocalResult(disp.handler) EXCEPT
                            !.valid = (u.kind = "ok"),
                            !.email = IF u.kind = "ok" THEN u.val.email ELSE None,
                            !.grant = disp.held]),
                    written)

DispNext ==
    \/ ReadLine
    \/ EndOfInput
    \/ RefreshTokenAnswers
    \/ ExchangeCodeAnswers
    \/ UserInfoEndpointAnswers

DispatchSpec == DispInit /\ [][DispNext]_vars

----------------------------------------------------------------------------
(* auth/oauth.rs: the functions that only compute, applied to drawn inputs *)

(* What Utc::now().timestamp_millis() can read *)
ClockReadings == {0, 1, ValidityMarginMs, 1000000}

(* The expiry timestamps passed in: none, the start of the run, and the    *)
(* values around the validity margin of every clock reading                *)
ExpiryDates ==
    {None, Some(0)}
    \cup {Some(t + d) : t \in ClockReadings, d \in {-1, 0, 1, 60000}}
    \cup {Some(t + ValidityMarginMs + d) : t \in ClockReadings, d \in {-1, 0, 1}}
    \cup {Some(t + DefaultLifetimeMs) : t \in ClockReadings}

PureInit ==
    /\ LifecycleParked
    /\ prov = ProvParked
    /\ disp = DispParked
    /\ pure = PureParked

(* is_token_valid(expiry_date) is called when the clock reads t *)
is_token_valid_called ==
    /\ pure.fn = "none"
    /\ UNCHANGED <<lifecycleVars, prov, disp>>
    /\ \E e \in ExpiryDates, t \in ClockReadings :
        pure' = [fn |-> "is_token_valid", expiry_date |-> e, now |-> t,
                 result |-> is_token_valid(e, t)]

(* exchange_code_for_tokens gets the endpoint's answer a and reads the     *)
(* clock at t                                                              *)
exchange_code_for_tokens_answered ==
    /\ pure.fn = "none"
    /\ UNCHANGED <<lifecycleVars, prov, disp>>
    /\ \E a \in EndpointAnswers, t \in ClockReadings :
        pure' = [fn |-> "exchange_code_for_tokens", answer |-> a, now |-> t,
                 result |-> exchange_code_for_tokens(a, t)]

(* refresh_access_token gets the endpoint's answer a and reads the clock   *)
(* at t                                                                    *)
refresh_access_token_answered ==
    /\ pure.fn = "none"
    /\ UNCHANGED <<lifecycleVars, prov, disp>>
    /\ \E a \in EndpointAnswers, t \in ClockReadings :
        pure' = [fn |-> "refresh_access_token", answer |-> a, now |-> t,
                 result |-> refresh_access_token("rt0", a, t)]

PkceVerifierLen == 64     \* generate_pkce: (0..64)
PkceAlphabetLen == 66     \* generate_pkce: % 66
U8Values == 256           \* rand::random::<u8>()

(* generate_pkce: chars *)
PkceAlphabet ==
    <<"A", "B", "C", "D", "E", "F", "G", "H", "I", "J", "K", "L", "M",
      "N", "O", "P", "Q", "R", "S", "T", "U", "V", "W", "X", "Y", "Z",
      "a", "b", "c", "d", "e", "f", "g", "h", "i", "j", "k", "l", "m",
      "n", "o", "p", "q", "r", "s", "t", "u", "v", "w", "x", "y", "z",
      "0", "1", "2", "3", "4", "5", "6", "7", "8", "9", "-", ".", "_",
      "~">>

(* Sha256 of sha2 and the base64 engines are library code: a digest and an *)
(* encoding are kept as what they are of                                   *)
Sha256(bytes) == [digest |-> "SHA-256", of |-> bytes]
base64_encode(engine, bytes) == [encoding |-> engine, of |-> bytes]

(* The bytes rand::random::<u8>() gives to one call of generate_pkce: any  *)
(* first byte, the following ones a fixed stride further (mod 256)         *)
RandomBytes ==
    {[i \in 1..PkceVerifierLen |-> (first + (i - 1) * stride) % U8Values] :
        first \in 0..(U8Values - 1), stride \in {0, 1, 3}}

(* Mutant of generate_pkce: the challenge is encoded with padding *)
generate_pkce_padded(bytes) ==
    LET code_verifier == [i \in 1..PkceVerifierLen |->
                             PkceAlphabet[(bytes[i] % PkceAlphabetLen) + 1]]
    IN  [code_verifier |-> code_verifier,
         code_challenge |-> base64_encode("URL_SAFE", Sha256(code_verifier))]

(* generate_pkce(), given the random bytes it draws *)
generate_pkce(bytes) ==
    LET code_verifier == [i \in 1..PkceVerifierLen |->
                             PkceAlphabet[(bytes[i] % PkceAlphabetLen) + 1]]
    IN  [code_verifier |-> code_verifier,
         code_challenge |-> base64_encode("URL_SAFE_NO_PAD", Sha256(code_verifier))]

(* generate_pkce() is called *)
generate_pkce_called ==
    /\ pure.fn = "none"
    /\ UNCHANGED <<lifecycleVars, prov, disp>>
    /\ \E bytes \in RandomBytes :
        pure' = [fn |-> "generate_pkce", bytes |-> bytes, result |-> generate_pkce(bytes)]

PureNext ==
    \/ is_token_valid_called
    \/ generate_pkce_called
    \/ exchange_code_for_tokens_answered
    \/ refresh_access_token_answered

PureSpec == PureInit /\ [][PureNext]_vars

----------------------------------------------------------------------------
(* Properties *)

(* The operation the histories belong to: the one in progress, or the one *)
(* that returned last                                                     *)
CurOp == IF pc = "idle" THEN ret.op ELSE op

(* The record held a present and valid access token when the operation *)
(* was called                                                          *)
PreValid ==
    /\ IsSome(pre.access_token)
    /\ IsSome(pre.expiry_date)
    /\ Unwrap(pre.expiry_date) > pre_now + ValidityMarginMs

Secrets(c) == <<c.access_token, c.refresh_token, c.expiry_date>>

(* C1: ensure_valid_token on a record whose access token is present and   *)
(* whose expiry is more than 5 minutes after now returns exactly the      *)
(* stored access token, calls the token endpoint zero times and leaves    *)
(* every field of the record as it was.                                   *)
C1_FastPath ==
    (CurOp = "ensure" /\ PreValid) =>
        /\ pc = "idle"
        /\ ret.kind = "ok"
        /\ ret.val = Unwrap(pre.access_token)
        /\ calls = 0
        /\ attempts = 0
        /\ cred = pre

C1_Witness ==
    /\ pc = "idle" /\ ret.op = "ensure" /\ PreValid
    /\ ret.kind = "ok"
    /\ IsSome(pre.refresh_token)

(* C2: ensure_valid_token on a record that holds no present-and-valid     *)
(* access token (token absent, expiry absent, or expiry at most 5 minutes *)
(* after now) but holds a refresh token performs a refresh, and when the  *)
(* refresh succeeds returns the access token just obtained.               *)
C2_RefreshPath ==
    (pc = "idle" /\ ret.op = "ensure" /\ ~PreValid /\ IsSome(pre.refresh_token)) =>
        /\ calls = 1
        /\ IsSome(grant) =>
              /\ ret.kind = "ok"
              /\ ret.val = Unwrap(grant).access_token

(* C3: ensure_valid_token on a record whose access token is present but   *)
(* not valid and which has no refresh token returns the stored access     *)
(* token as a success, calls the token endpoint zero times and leaves the *)
(* record as it was.                                                      *)
C3_StalePath ==
    (CurOp = "ensure" /\ IsSome(pre.access_token) /\ ~PreValid
        /\ pre.refresh_token = None) =>
        /\ pc = "idle"
        /\ ret.kind = "ok"
        /\ ret.val = Unwrap(pre.access_token)
        /\ calls = 0
        /\ cred = pre

C3_Witness ==
    /\ pc = "idle" /\ ret.op = "ensure" /\ ret.kind = "ok"
    /\ IsSome(pre.access_token) /\ ~PreValid /\ pre.refresh_token = None
    /\ IsSome(pre.expiry_date)

(* A step in which a refresh succeeded: a new TokenResponse was built *)
RefreshSucceeds == IsSome(grant') /\ grant' # grant

(* C4: a successful refresh updates the record in one step: access token, *)
(* expiry, RFC-3339 expiry string, last-refresh timestamp (now), health   *)
(* flag (true) and last-error (cleared) all change together, and no step  *)
(* of any operation changes the record in any other way.                  *)
C4_AtomicUpdate ==
    [][(RefreshSucceeds \/ cred' # cred) =>
          /\ RefreshSucceeds
          /\ cred'.access_token = Some(Unwrap(grant').access_token)
          /\ cred'.expiry_date = Unwrap(grant').expiry_date
          /\ IsSome(cred'.expiry_date)
          /\ cred'.expire = Rfc3339(Unwrap(Unwrap(grant').expiry_date))
          /\ cred'.last_refresh = Rfc3339(now')
          /\ cred'.is_healthy = TRUE
          /\ cred'.last_error = None]_vars

C4_Witness ==
    /\ pc = "idle" /\ ret.op = "refresh" /\ ret.kind = "ok"
    /\ IsSome(grant)
    /\ pre.is_healthy = FALSE /\ cred.is_healthy = TRUE
    /\ pre.access_token # cred.access_token

(* C5: a successful refresh whose answer omits a refresh token leaves the *)
(* stored refresh token as it was and returns a grant carrying that same  *)
(* token; the stored refresh token changes only in a successful refresh   *)
(* whose answer carries a refresh token, and then becomes that token.     *)
C5_RefreshTokenRetention ==
    [][/\ RefreshSucceeds =>
            IF Unwrap(answer').refresh_token = None
            THEN /\ cred'.refresh_token = cred.refresh_token
                 /\ Unwrap(grant').refresh_token = cred.refresh_token
            ELSE /\ cred'.refresh_token = Unwrap(answer').refresh_token
                 /\ Unwrap(grant').refresh_token = Unwrap(answer').refresh_token
       /\ cred'.refresh_token # cred.refresh_token =>
            /\ RefreshSucceeds
            /\ IsSome(Unwrap(answer').refresh_token)]_vars

C5_Witness ==
    /\ pc = "idle" /\ IsSome(grant)
    /\ Unwrap(answer).refresh_token = None
    /\ cred.refresh_token = Some("rt0")
    /\ Unwrap(grant).refresh_token = Some("rt0")

(* C6: when refresh_credential_token fails because the token endpoint     *)
(* rejected the request or answered with an unparsable body, the record's *)
(* health flag is false and its last-error is the error message.          *)
C6_FailureRecorded ==
    (pc = "idle" /\ ret.op = "refresh" /\ ret.kind = "err"
        /\ ret.val.kind \in {"UpstreamRejected", "MalformedResponse"}) =>
        /\ cred.is_healthy = FALSE
        /\ cred.last_error = Some(ret.val)

(* C7: a failed refresh_credential_token, whatever the cause, leaves the  *)
(* access token, the refresh token and the expiry as they were.           *)
C7_FailureKeepsSecrets ==
    (failures >= 1 /\ grant = None) => Secrets(cred) = Secrets(pre)

C7_Witness ==
    /\ pc = "idle" /\ ret.op = "refresh" /\ ret.kind = "err"
    /\ ret.val.kind = "UpstreamRejected"
    /\ IsSome(cred.access_token) /\ IsSome(cred.expiry_date)

(* C8: refresh_credential_token on a record without a refresh token fails *)
(* with the missing-refresh-token error and never calls the token         *)
(* endpoint.                                                              *)
C8_MissingRefreshToken ==
    (CurOp = "refresh" /\ pre.refresh_token = None) =>
        /\ pc = "idle"
        /\ ret.kind = "err"
        /\ ret.val = MissingRefreshToken
        /\ calls = 0

C8_Witness ==
    /\ pc = "idle" /\ ret.op = "refresh" /\ pre.refresh_token = None
    /\ ret.kind = "err"

(* The delays 1000 * 2^k for k = 0 .. n-1 *)
BackoffDelays(n) == [k \in 1..n |-> BackoffBaseMs * Pow2(k - 1)]

(* C9: refresh_token_with_retry with max_retries = n, every attempt       *)
(* failing, makes exactly n attempts, sleeps 1000 * 2^k ms after the      *)
(* attempt of index k, and then returns the last error.                   *)
C9_BoundedRetry ==
    (pc = "idle" /\ ret.op = "retry" /\ IsSome(pre.refresh_token) /\ grant = None) =>
        /\ attempts = pre_max
        /\ calls = pre_max
        /\ failures = pre_max
        /\ sleeps = BackoffDelays(pre_max)
        /\ ret.kind = "err"
        /\ ret.val = Unwrap(attempt_err)

(* The part of C9 that holds of the code: the same, the error returned    *)
(* being left aside when no attempt was made.                             *)
RetryAttemptsAndDelays ==
    (pc = "idle" /\ ret.op = "retry" /\ grant = None) =>
        /\ attempts = pre_max
        /\ failures = pre_max
        /\ sleeps = BackoffDelays(pre_max)
        /\ pre_max >= 1 => (ret.kind = "err" /\ ret.val = Unwrap(attempt_err))

(* C10: refresh_token_with_retry returns the grant of the first attempt   *)
(* that succeeds, with no attempt and no sleep after it; when it returns  *)
(* an error, that is the error of its final attempt.                      *)
C10_FirstSuccessLastError ==
    (CurOp = "retry") =>
        /\ IsSome(grant) =>
              /\ pc = "idle"
              /\ ret.kind = "ok"
              /\ ret.val = TokenRefreshResult(Unwrap(grant))
              /\ attempts = failures + 1
              /\ sleeps = BackoffDelays(failures)
        /\ (pc = "idle" /\ ret.kind = "err") =>
              /\ grant = None
              /\ attempts = pre_max
              /\ ret.val = Unwrap(attempt_err)

C10_Witness ==
    /\ pc = "idle" /\ ret.op = "retry" /\ ret.kind = "err"
    /\ pre_max = 3 /\ failures = 3
    /\ ret.val = MalformedResponse

C10_WitnessSuccess ==
    /\ pc = "idle" /\ ret.op = "retry" /\ ret.kind = "ok"
    /\ failures = 2

(* C11: after any sequence of successful and failed lifecycle operations, *)
(* once a refresh has set the access token and the expiry, the record's   *)
(* access token and expiry are those of one and the same grant, the       *)
(* latest one; the expiry is never one left from an earlier token.        *)
C11_ExpiryOfCurrentToken ==
    IsSome(issued) =>
        /\ cred.access_token = Some(Unwrap(issued).access_token)
        /\ IsSome(cred.expiry_date)
        /\ cred.expiry_date = Unwrap(issued).expiry_date

C11_Witness ==
    /\ pc = "idle" /\ opCount = 2
    /\ IsSome(grant) /\ IsSome(issued)
    /\ pre.access_token \in {Some(t) : t \in IssuedAccessTokens}
    /\ pre.expiry_date # cred.expiry_date
    /\ pre.access_token # cred.access_token

----------------------------------------------------------------------------
(* Properties of the provisioning flow, checked under ProvSpec *)

ProvDone == prov.pc = "done"

ProvSucceeded == ProvDone /\ prov.result.kind = "ok"

(* C12: onboard_user makes at most 12 onboardUser calls. When the k-th     *)
(* poll is the first to report done (k - 1 polls reported not done before  *)
(* it), the flow succeeds after exactly k calls; when 12 polls reported    *)
(* not done, it has failed with the provisioning-timeout error after       *)
(* exactly 12 calls, and it fails so in no other case.                     *)
C12_PollCap ==
    /\ prov.polls <= MAX_ATTEMPTS
    /\ ProvSucceeded =>
          /\ Unwrap(prov.last).kind = "ok" /\ Unwrap(prov.last).done
          /\ prov.polls = prov.notdone + 1
          /\ prov.polls \in 1..MAX_ATTEMPTS
    /\ prov.notdone = MAX_ATTEMPTS =>
          /\ ProvDone
          /\ prov.result = Err(ProvisioningTimeout)
          /\ prov.polls = MAX_ATTEMPTS
    /\ (ProvDone /\ prov.result = Err(ProvisioningTimeout)) =>
          prov.notdone = MAX_ATTEMPTS

(* Eleven polls reported not done and the twelfth reported done *)
C12_Witness ==
    /\ ProvSucceeded
    /\ prov.notdone = MAX_ATTEMPTS - 1
    /\ prov.polls = MAX_ATTEMPTS

(* C13: once an onboarding poll is answered with a non-success status the  *)
(* flow is over: onboard_user has failed with the upstream-rejected error  *)
(* of that status, setup_user has returned that failure and no project id, *)
(* and the rejected poll was the last call, with no sleep after it.        *)
C13_RejectedPollFails ==
    (IsSome(prov.last) /\ Unwrap(prov.last).kind = "rejected") =>
        /\ ProvDone
        /\ prov.result = Err(UpstreamRejected(Unwrap(prov.last).status))
        /\ prov.polls = prov.notdone + 1
        /\ prov.slept = prov.notdone

(* A poll is rejected after earlier polls reported not done *)
C13_Witness ==
    /\ ProvDone
    /\ IsSome(prov.last) /\ Unwrap(prov.last).kind = "rejected"
    /\ prov.notdone = 2
    /\ prov.result.kind = "err"

(* The tier an id names: PRO and FREE are the recognized ids *)
TierNamed(id) == IF id \in {Some("PRO"), Some("FREE")} THEN Unwrap(id) ELSE "LEGACY"

(* The positions of the allowed tiers flagged default *)
DefaultFlagged(load_res) ==
    IF IsSome(load_res.allowed_tiers) /\ Unwrap(load_res.allowed_tiers).is_array
    THEN {i \in DOMAIN Unwrap(load_res.allowed_tiers).items :
             Unwrap(load_res.allowed_tiers).items[i].isDefault = Some(TRUE)}
    ELSE {}

FirstDefaultFlagged(load_res) ==
    LET flagged == DefaultFlagged(load_res)
        first == CHOOSE i \in flagged : \A j \in flagged : i <= j
    IN  Unwrap(load_res.allowed_tiers).items[first]

(* C14 as stated: the preference is decided by the presence of a current   *)
(* tier id. If the loaded configuration carries a current tier id, the     *)
(* tier is that id; else if an allowed tier is flagged default, the tier   *)
(* is that tier's id; else the tier is Legacy.                             *)
C14_TierByCurrentTierId ==
    IsSome(prov.load_res) =>
        LET load_res == Unwrap(prov.load_res) IN
        /\ prov.tier \in {"PRO", "FREE", "LEGACY"}
        /\ prov.tier =
            IF IsSome(load_res.current_tier) /\ IsSome(Unwrap(load_res.current_tier).id)
            THEN TierNamed(Unwrap(load_res.current_tier).id)
            ELSE IF DefaultFlagged(load_res) # {}
            THEN TierNamed(FirstDefaultFlagged(load_res).id)
            ELSE "LEGACY"

(* C14 (amended): the preference is decided by the presence of a current   *)
(* tier. If the loaded configuration carries a current tier, the tier is   *)
(* its id, and Legacy when it has no id or an unrecognized one, whatever   *)
(* the allowed tiers say; else if an allowed tier is flagged default, the  *)
(* tier is that tier's id; else the tier is Legacy. A tier is always       *)
(* decided: one of PRO, FREE and LEGACY.                                   *)
C14_TierByCurrentTier ==
    IsSome(prov.load_res) =>
        LET load_res == Unwrap(prov.load_res) IN
        /\ prov.tier \in {"PRO", "FREE", "LEGACY"}
        /\ prov.tier =
            IF IsSome(load_res.current_tier)
            THEN TierNamed(Unwrap(load_res.current_tier).id)
            ELSE IF DefaultFlagged(load_res) # {}
            THEN TierNamed(FirstDefaultFlagged(load_res).id)
            ELSE "LEGACY"

(* A current tier without an id next to an allowed tier flagged default *)
C14_Witness ==
    /\ IsSome(prov.load_res)
    /\ Unwrap(prov.load_res).current_tier = Some([id |-> None])
    /\ DefaultFlagged(Unwrap(prov.load_res)) # {}
    /\ FirstDefaultFlagged(Unwrap(prov.load_res)).id = Some("FREE")
    /\ prov.tier = "LEGACY"

(* C15: when the flow succeeds, the project id it returns is the one of    *)
(* the onboarding result if there is one; else the caller-supplied one;    *)
(* else the one the load step returned; else the empty string. A poll that *)
(* reports done ends the flow in success whatever the project id is.       *)
C15_FinalProjectId ==
    /\ ProvSucceeded =>
        LET lro_res == Unwrap(prov.last)
            load_res == Unwrap(prov.load_res)
        IN  prov.result.val.project_id =
                IF IsSome(lro_res.response) /\ IsSome(Unwrap(lro_res.response).project_id)
                THEN Unwrap(Unwrap(lro_res.response).project_id)
                ELSE IF IsSome(prov.initial_project_id)
                THEN Unwrap(prov.initial_project_id)
                ELSE IF IsSome(load_res.cloud_ai_companion_project)
                THEN Unwrap(load_res.cloud_ai_companion_project)
                ELSE ""
    /\ (ProvDone /\ IsSome(prov.last) /\ Unwrap(prov.last).kind = "ok"
           /\ Unwrap(prov.last).done) => ProvSucceeded

(* No project id anywhere: the flow succeeds with the empty string *)
C15_Witness ==
    /\ ProvSucceeded
    /\ prov.result.val.project_id = ""
    /\ prov.initial_project_id = None
    /\ Unwrap(prov.load_res).cloud_ai_companion_project = None

----------------------------------------------------------------------------
(* Properties of the dispatch loop, checked under DispatchSpec *)

(* The ids of the responses written to requests: the response to a line    *)
(* that did not parse has a null id                                        *)
RequestResponses == SelectSeq(disp.out, IsSome)

AwaitingUpstream == disp.pc \in {"refresh_http", "exchange_http", "userinfo_http"}

NoUpstreamCall ==
    /\ disp.token_calls = 0
    /\ disp.exchange_calls = 0
    /\ disp.userinfo_calls = 0
    /\ disp.inflight = 0
    /\ ~AwaitingUpstream

ErrorCode(response) == IF IsSome(response.error) THEN Unwrap(response.error).code ELSE 0

(* C16: the loop handles one request at a time. The responses to requests  *)
(* carry the ids of the parsed requests in the order they were read; when  *)
(* the loop is about to read a line every parsed request has its response, *)
(* while a handler awaits an upstream answer only the latest request lacks *)
(* one, and at most one upstream call is in flight.                        *)
C16_SerialDispatch ==
    /\ disp.inflight <= 1
    /\ Len(RequestResponses) <= Len(disp.parsed)
    /\ \A i \in 1..Len(RequestResponses) : RequestResponses[i] = Some(disp.parsed[i])
    /\ disp.pc = "read" => Len(RequestResponses) = Len(disp.parsed)
    /\ AwaitingUpstream =>
          /\ Len(RequestResponses) = Len(disp.parsed) - 1
          /\ disp.inflight = 1
    /\ disp.inflight = 1 => AwaitingUpstream

(* Two requests, the second a refresh, answered in the order they came *)
C16_Witness ==
    /\ disp.pc = "read"
    /\ disp.parsed = <<2, 1>>
    /\ disp.out = <<Some(2), Some(1)>>
    /\ disp.token_calls = 1

(* C17: reading a malformed line writes one response, with code -32700 and *)
(* a null id, calls no handler and no upstream, and leaves the loop at its *)
(* next read; only a failed write of that response ends the loop.          *)
C17_MalformedLine ==
    [][(disp'.lines = disp.lines + 1 /\ disp'.last.kind = "malformed") =>
          /\ disp'.parsed = disp.parsed
          /\ disp'.token_calls = 0 /\ disp'.exchange_calls = 0
          /\ disp'.userinfo_calls = 0 /\ disp'.inflight = 0
          /\ \/ /\ disp'.pc = "read"
                /\ disp'.out = Append(disp.out, None)
                /\ disp'.resp.id = None
                /\ disp'.resp.result = None
                /\ ErrorCode(disp'.resp) = ParseErrorCode
             \/ /\ disp'.pc = "write_failed"
                /\ disp'.out = disp.out]_vars

(* A malformed line was answered and the next line, a request, too *)
C17_Witness ==
    /\ disp.pc = "read"
    /\ disp.lines = 2
    /\ disp.out = <<None, Some(1)>>
    /\ disp.last.kind = "request"
    /\ ErrorCode(disp.resp) = 0

(* C18: a request whose method is none of the twelve recognized names is   *)
(* answered with code -32601 and its own id, without a handler awaiting    *)
(* anything and without an upstream call.                                  *)
C18_UnknownMethod ==
    (disp.last.kind = "request" /\ disp.last.request.method \notin RecognizedMethods) =>
        /\ NoUpstreamCall
        /\ disp.pc # "write_failed" =>
              /\ disp.resp.id = Some(disp.last.request.id)
              /\ disp.resp.result = None
              /\ ErrorCode(disp.resp) = MethodNotFoundCode

C18_Witness ==
    /\ disp.pc = "read"
    /\ disp.last.kind = "request"
    /\ disp.last.request.method = "frobnicate"
    /\ disp.last.request.id = 2
    /\ disp.out = <<Some(2)>>
    /\ ErrorCode(disp.resp) = MethodNotFoundCode

(* The fields the handler of a method reads from params, and those it      *)
(* cannot do without                                                       *)
ReadFields(m) ==
    CASE m \in {"acquire_credential", "add_credential"} -> {"id", "access_token"}
      [] m = "refresh_token" -> {"refresh_token"}
      [] m = "validate_credential" -> {"access_token"}
      [] m = "get_auth_url" -> {"state"}
      [] m = "exchange_code" -> {"code", "code_verifier", "redirect_uri"}
      [] OTHER -> {}

RequiredFields(m) ==
    CASE m = "acquire_credential" -> {"id", "access_token"}
      [] m = "add_credential" -> {"id"}
      [] m = "refresh_token" -> {"refresh_token"}
      [] m = "validate_credential" -> {"access_token"}
      [] m = "exchange_code" -> {"code", "code_verifier"}
      [] OTHER -> {}

(* Params are structurally invalid: a required field is missing (params    *)
(* absent included) or a field the handler reads has the wrong type        *)
StructurallyInvalid(request) ==
    IF request.params = None
    THEN RequiredFields(request.method) # {}
    ELSE \/ \E f \in RequiredFields(request.method) : Unwrap(request.params)[f] = "absent"
         \/ \E f \in ReadFields(request.method) : Unwrap(request.params)[f] = "wrong"

(* C19: a request of a recognized method with structurally invalid params  *)
(* is answered with code -32602, and no upstream call is made for it.      *)
C19_InvalidParamsRejected ==
    (/\ disp.last.kind = "request"
     /\ disp.last.request.method \in RecognizedMethods
     /\ StructurallyInvalid(disp.last.request)) =>
        /\ NoUpstreamCall
        /\ disp.pc # "write_failed" => ErrorCode(disp.resp) = InvalidParamsCode

(* The error a failed call to the token endpoint is *)
FailureOf(a) ==
    CASE a.kind = "rejected" -> UpstreamRejected(a.status)
      [] a.kind = "malformed" -> MalformedResponse
      [] a.kind = "network" -> NetworkError

(* C20: when the token endpoint rejects a refresh or a code exchange,      *)
(* answers with an unparsable body or cannot be reached, the request is    *)
(* answered with code -32000 and a message carrying that error, the        *)
(* upstream status included; the loop goes on to its next read and only a  *)
(* failed write of the response ends it.                                   *)
C20_OperationFailed ==
    (IsSome(disp.answer) /\ Unwrap(disp.answer).kind # "ok") =>
        /\ disp.pc \in {"read", "stopped", "write_failed"}
        /\ disp.inflight = 0
        /\ disp.pc # "write_failed" =>
              /\ disp.resp.id = Some(disp.last.request.id)
              /\ disp.resp.result = None
              /\ ErrorCode(disp.resp) = OperationFailedCode
              /\ Unwrap(disp.resp.error).message.cause =
                    Some(FailureOf(Unwrap(disp.answer)))

(* A code exchange was rejected with HTTP 400 and the loop reads on *)
C20_Witness ==
    /\ disp.pc = "read"
    /\ disp.last.request.method = "exchange_code"
    /\ IsSome(disp.answer)
    /\ Unwrap(disp.answer).kind = "rejected"
    /\ Unwrap(disp.answer).status = 400
    /\ ErrorCode(disp.resp) = OperationFailedCode

----------------------------------------------------------------------------
(* Properties of the functions of auth/oauth.rs, checked under PureSpec *)

(* C21: for every optional expiry e and clock reading now, is_token_valid  *)
(* answers true exactly when e is present and more than 300000 ms after    *)
(* now: an absent expiry is not valid, and an expiry exactly 300000 ms     *)
(* after now is not valid.                                                 *)
C21_ValidityPredicate ==
    pure.fn = "is_token_valid" =>
        /\ pure.result = TRUE <=>
              (pure.expiry_date # None /\ pure.expiry_date[1] - pure.now > 300000)
        /\ pure.expiry_date = None => pure.result = FALSE
        /\ pure.expiry_date = Some(pure.now + 300000) => pure.result = FALSE
        /\ pure.expiry_date = Some(pure.now + 300001) => pure.result = TRUE

(* An expiry exactly 300000 ms after a clock reading that is not zero *)
C21_Witness ==
    /\ pure.fn = "is_token_valid"
    /\ pure.now = 1000000
    /\ pure.expiry_date = Some(1300000)
    /\ pure.result = FALSE

(* C22: the grant of a successful exchange or refresh keeps the absolute   *)
(* expiry of the response when there is one; without it and with           *)
(* expires_in, the expiry is now + expires_in * 1000; a successful refresh *)
(* whose response has neither gets now + 3600000, so the grant of every    *)
(* successful refresh has an expiry.                                       *)
C22_GrantExpiry ==
    (pure.fn \in {"exchange_code_for_tokens", "refresh_access_token"}
        /\ pure.result.kind = "ok") =>
        LET a == pure.answer
            granted == pure.result.val.expiry_date
        IN
        /\ a.expiry_date # None => granted = a.expiry_date
        /\ (a.expiry_date = None /\ a.expires_in # None) =>
              granted = Some(pure.now + a.expires_in[1] * 1000)
        /\ (pure.fn = "refresh_access_token" /\ a.expiry_date = None
               /\ a.expires_in = None) =>
              granted = Some(pure.now + 3600000)
        /\ pure.fn = "refresh_access_token" => granted # None

(* A refresh whose response carries neither expiry nor expires_in *)
C22_Witness ==
    /\ pure.fn = "refresh_access_token"
    /\ pure.result.kind = "ok"
    /\ pure.answer.expiry_date = None
    /\ pure.answer.expires_in = None
    /\ pure.now = 1000000
    /\ pure.result.val.expiry_date = Some(4600000)

(* The unreserved characters [A-Za-z0-9-._~] *)
UnreservedCharacters ==
    {"A", "B", "C", "D", "E", "F", "G", "H", "I", "J", "K", "L", "M",
     "N", "O", "P", "Q", "R", "S", "T", "U", "V", "W", "X", "Y", "Z",
     "a", "b", "c", "d", "e", "f", "g", "h", "i", "j", "k", "l", "m",
     "n", "o", "p", "q", "r", "s", "t", "u", "v", "w", "x", "y", "z",
     "0", "1", "2", "3", "4", "5", "6", "7", "8", "9", "-", ".", "_",
     "~"}

(* C23: every pair generate_pkce returns has a verifier of exactly 64      *)
(* characters, all unreserved, so of a length between 43 and 128, and a    *)
(* challenge that is the unpadded URL-safe base64 encoding of the SHA-256  *)
(* digest of that verifier.                                                *)
C23_PkcePair ==
    pure.fn = "generate_pkce" =>
        LET verifier == pure.result.code_verifier IN
        /\ Len(verifier) = 64
        /\ Len(verifier) >= 43 /\ Len(verifier) <= 128
        /\ \A i \in 1..Len(verifier) : verifier[i] \in UnreservedCharacters
        /\ pure.result.code_challenge.encoding = "URL_SAFE_NO_PAD"
        /\ pure.result.code_challenge.of.digest = "SHA-256"
        /\ pure.result.code_challenge.of.of = verifier

(* A random byte above the alphabet's length picks the last character *)
C23_Witness ==
    /\ pure.fn = "generate_pkce"
    /\ pure.bytes[1] = 197
    /\ pure.result.code_verifier[1] = "~"
    /\ pure.result.code_verifier[2] = "A"

----------------------------------------------------------------------------
(* Further properties of the lifecycle operations, checked under Spec *)

(* C24: refresh_token_with_retry sleeps only between attempts. While it    *)
(* sleeps another attempt is still to come, and when it returns an error   *)
(* after n failed attempts it has slept n - 1 times.                       *)
C24_SleepOnlyBetweenAttempts ==
    /\ (pc = "sleep" /\ op = "retry") => attempt + 1 < max_retries
    /\ (pc = "idle" /\ ret.op = "retry" /\ ret.kind = "err" /\ failures >= 1) =>
          Len(sleeps) = failures - 1

(* C25: within one operation no call to the token endpoint follows a       *)
(* failure that was a MalformedResponse.                                   *)
C25_MalformedNotRetried ==
    [][(opCount' = opCount /\ attempt_err = Some(MalformedResponse)) =>
          calls' = calls]_vars

(* C27: whatever max_retries is, refresh_token_with_retry ends by          *)
(* returning a grant or an error that one of its attempts ended with; it   *)
(* never panics.                                                           *)
C27_AlwaysReturns ==
    (pc = "idle" /\ ret.op = "retry") =>
        \/ ret.kind = "ok" /\ IsSome(grant)
        \/ ret.kind = "err" /\ attempts >= 1 /\ attempt_err = Some(ret.val)

(* C26: the dispatcher retries nothing. While and after one refresh_token  *)
(* request is handled the token endpoint has been asked to refresh at most *)
(* once and no code was exchanged; while and after one exchange_code       *)
(* request is handled at most one code exchange was asked for and nothing  *)
(* was refreshed; and once the endpoint has answered, with a grant or with *)
(* a failure, neither call is awaited again for that request.              *)
C26_NoDispatcherRetry ==
    /\ disp.token_calls <= 1
    /\ disp.exchange_calls <= 1
    /\ disp.token_calls = 1 =>
          /\ disp.last.kind = "request"
          /\ disp.last.request.method = "refresh_token"
          /\ disp.exchange_calls = 0
    /\ disp.exchange_calls = 1 =>
          /\ disp.last.kind = "request"
          /\ disp.last.request.method = "exchange_code"
          /\ disp.token_calls = 0
    /\ IsSome(disp.answer) => disp.pc \notin {"refresh_http", "exchange_http"}

(* A refresh_token request whose one refresh failed has its error out, and *)
(* an exchange_code request whose one exchange failed has too              *)
C26_Witness ==
    /\ disp.pc = "read"
    /\ disp.last.kind = "request"
    /\ disp.last.request.method \in {"refresh_token", "exchange_code"}
    /\ disp.token_calls + disp.exchange_calls = 1
    /\ IsSome(disp.answer)
    /\ ErrorCode(disp.resp) = OperationFailedCode

(* The loop awaits a handler's upstream call *)
Awaiting(d) == d.pc \in {"refresh_http", "exchange_http", "userinfo_http"}

(* What a step that owes a response may lead to: the response is written   *)
(* and the loop is back at reading, or a handler awaits upstream, or the   *)
(* write failed                                                            *)
AnsweredOrAwaiting(d, e) ==
    \/ e.pc = "read" /\ Len(e.out) = Len(d.out) + 1
    \/ Awaiting(e) /\ e.out = d.out
    \/ e.pc = "write_failed" /\ e.out = d.out

(* C28: the loop stops only at the end of input or at a failed write. It   *)
(* gets to "stopped" only from the read of stdin, with nothing owed; it    *)
(* gets to "write_failed" only with a response that did not get out; and   *)
(* every line that is a request or is malformed, and every answer of an    *)
(* upstream call, leaves the loop reading the next line with the response  *)
(* written, or awaiting upstream, whatever the request was.                *)
C28_LoopStopsOnlyAtEofOrWriteFailure ==
    [][/\ (disp'.pc = "stopped" /\ disp.pc # "stopped") =>
              disp' = [disp EXCEPT !.pc = "stopped"] /\ disp.pc = "read"
       /\ (disp'.pc = "write_failed" /\ disp.pc # "write_failed") =>
              disp'.out = disp.out /\ (disp.pc = "read" \/ Awaiting(disp))
       /\ (disp'.lines = disp.lines + 1 /\ disp'.last.kind \in {"request", "malformed"}) =>
              AnsweredOrAwaiting(disp, disp')
       /\ (disp'.lines = disp.lines + 1 /\ disp'.last.kind \in {"unreadable", "blank"}) =>
              disp'.pc = "read" /\ disp'.out = disp.out
       /\ (Awaiting(disp) /\ disp' # disp) => AnsweredOrAwaiting(disp, disp')]_vars

(* A shutdown request was answered, and the line read after it was a       *)
(* request that is answered too, with the loop reading on                  *)
C28_Witness ==
    /\ disp.after_shutdown
    /\ disp.pc = "read"
    /\ disp.last.kind = "request"
    /\ Len(disp.out) = 2
    /\ disp.resp.id = Some(disp.last.request.id)

(* The latest line is an acquire_credential request with a record that     *)
(* parses and holds an access token                                        *)
AcquireOfStoredToken ==
    /\ disp.last.kind = "request"
    /\ disp.last.request.method = "acquire_credential"
    /\ IsSome(disp.last.request.params)
    /\ credential_from_value(Unwrap(disp.last.request.params))
    /\ Unwrap(disp.last.request.params).access_token \notin {"absent", "wrong"}

(* C29: acquire_credential gates nothing. For a record that holds an       *)
(* access token, whatever its expiry_date and with or without a refresh    *)
(* token, no upstream call is made and nothing is awaited, and the         *)
(* response written is a success for the request's id whose token is the   *)
(* record's access token and whose expires_at is the record's expiry.      *)
C29_AcquireUngated ==
    AcquireOfStoredToken =>
        /\ disp.token_calls = 0 /\ disp.exchange_calls = 0 /\ disp.userinfo_calls = 0
        /\ disp.pc \in {"read", "stopped", "write_failed"}
        /\ disp.pc # "write_failed" =>
              /\ disp.resp.id = Some(disp.last.request.id)
              /\ disp.resp.error = None
              /\ IsSome(disp.resp.result)
              /\ Unwrap(disp.resp.result).token =
                    Some(Unwrap(disp.last.request.params).access_token)
              /\ Unwrap(disp.resp.result).expires_at =
                    acquired_expires_at(Unwrap(disp.last.request.params).expiry_date)

(* A record whose token expired, and which has no refresh token, was asked *)
(* for and its token "at9" handed out                                      *)
C29_Witness ==
    /\ AcquireOfStoredToken
    /\ Unwrap(disp.last.request.params).access_token = "at9"
    /\ Unwrap(disp.last.request.params).refresh_token = "absent"
    /\ IsSome(Unwrap(disp.last.request.params).expiry_date)
    /\ ~is_token_valid(Unwrap(disp.last.request.params).expiry_date, now)
    /\ Unwrap(Unwrap(disp.last.request.params).expiry_date) < now
    /\ disp.pc = "read"
    /\ IsSome(disp.resp.result)
    /\ Unwrap(disp.resp.result).token = Some("at9")

====
